---- MODULE Spec2Model ----
(***************************************************************************)
(* lint/sentence_newline.py: the "new sentence on a new line" checker.     *)
(*                                                                         *)
(* A line of text is a sequence of one-character strings.  The script's    *)
(* state is its globals (is_error, path), the locals of process_file       *)
(* (is_codeblock, is_ignoreblock, ignoreblock_lines, lineno, line), what   *)
(* it wrote to stderr and its exit status.                                 *)
(***************************************************************************)
EXTENDS Integers, Sequences, FiniteSets, TLC

VARIABLES
    pc,                 \* "argv" | "for" | "file" | "exited"
    argc,               \* len(sys.argv)
    ndocs,              \* number of paths the glob yields
    path,               \* index of the path the for loop is at (0: none yet)
    nlines,             \* len(src.splitlines()) of the document being read
    lineno,             \* process_file: number of the line last processed
    line,               \* process_file: text of the line last processed
    is_codeblock,
    is_ignoreblock,
    ignoreblock_lines,
    is_error,
    stderr,             \* the messages written by the last step that wrote or read a line
    exit_status,        \* -1 while the script runs
    reported,           \* history: some violation was written to stderr
    regionLen,          \* history: lines of the ignore region so far, start marker first
    regionDur,          \* history: duration violations reported for that region
    checked,            \* history: the line last processed reached line 70
    oddFences,          \* history: an odd number of the lines read hold the fence
    leftOpen            \* history: the document before ended in a code block and
                        \* in an ignore region of more than 20 lines

vars == <<pc, argc, ndocs, path, nlines, lineno, line, is_codeblock,
          is_ignoreblock, ignoreblock_lines, is_error, stderr, exit_status,
          reported, regionLen, regionDur,
                   checked, oddFences, leftOpen>>

(***************************************************************************)
(* Bounds of the model.                                                    *)
(***************************************************************************)
MaxDocs == 2
MaxLines == 25
MaxSetup == 2
MaxLen == 4

(***************************************************************************)
(* Text.                                                                   *)
(***************************************************************************)
Min(a, b) == IF a < b THEN a ELSE b
Max(a, b) == IF a > b THEN a ELSE b

\* The characters str.strip() removes and \s matches that a line can hold.
Whitespace == {" ", "\t"}

Digits == {"0", "1", "2", "3", "4", "5", "6", "7", "8", "9"}

\* [.?!]
Terminal == {".", "?", "!"}

\* The fence marker: three backticks.  The backtick is written "backtick", a
\* string literal cannot hold it.
FENCE == <<"backtick", "backtick", "backtick">>

START_MARKER ==
    <<"<", "!", "-", "-", " ", "i", "g", "n", "o", "r", "e", "(", "s", "e",
      "n", "t", "e", "n", "c", "e", "-", "n", "e", "w", "l", "i", "n", "e",
      ")", " ", "-", "-", ">">>

END_MARKER ==
    <<"<", "!", "-", "-", " ", "u", "n", "i", "g", "n", "o", "r", "e", "(",
      "s", "e", "n", "t", "e", "n", "c", "e", "-", "n", "e", "w", "l", "i",
      "n", "e", ")", " ", "-", "-", ">">>

\* needle in s
Contains(s, needle) ==
    \E i \in 1..(Len(s) - Len(needle) + 1) :
        SubSeq(s, i, i + Len(needle) - 1) = needle

RECURSIVE lstrip(_)
\* s.lstrip()
lstrip(s) ==
    IF s # <<>> /\ Head(s) \in Whitespace THEN lstrip(Tail(s)) ELSE s

RECURSIVE rstrip(_)
\* s.rstrip()
rstrip(s) ==
    IF s # <<>> /\ s[Len(s)] \in Whitespace
    THEN rstrip(SubSeq(s, 1, Len(s) - 1)) ELSE s

\* s.strip()
strip(s) == rstrip(lstrip(s))

RECURSIVE replace_newline(_)
\* violation.replace("\n", "\\n")
replace_newline(s) ==
    IF s = <<>> THEN <<>>
    ELSE (IF Head(s) = "\n" THEN <<"\\", "n">> ELSE <<Head(s)>>)
         \o replace_newline(Tail(s))

(***************************************************************************)
(* REGEX and get_rule_violation.  Positions are 1-based here: a match at   *)
(* position i is the punctuation mark line[i] and the space line[i+1],     *)
(* and match.start(0) = i - 1, match.end(0) = i + 1.                       *)
(***************************************************************************)
Abbreviations == {<<"e", ".", "g">>, <<"i", ".", "e">>, <<"e", "t", "c">>}

\* NotAfterAbbreviation with the lookbehind left out
AbbreviationIgnored(s, i) == TRUE

\* (?<!e\.g|i\.e|etc)
NotAfterAbbreviation(s, i) ==
    ~(i > 3 /\ SubSeq(s, i - 3, i - 1) \in Abbreviations)

\* NotAfterTerminal with the lookbehind left out
TerminalIgnored(s, i) == TRUE

\* (?<![.!?])
NotAfterTerminal(s, i) == ~(i > 1 /\ s[i - 1] \in Terminal)

\* (?<![0-9])
NotAfterDigit(s, i) == ~(i > 1 /\ s[i - 1] \in Digits)

\* [.?!][ ](?!\s)
PunctuationSpace(s, i) ==
    /\ i + 1 <= Len(s)
    /\ s[i] \in Terminal
    /\ s[i + 1] = " "
    /\ ~(i + 2 <= Len(s) /\ s[i + 2] \in Whitespace)

\* REGEX matches at position i of s
REGEX(s, i) ==
    /\ NotAfterAbbreviation(s, i)
    /\ NotAfterTerminal(s, i)
    /\ NotAfterDigit(s, i)
    /\ PunctuationSpace(s, i)

RECURSIVE search_from(_, _)
\* the scan of REGEX.search(s) from position i on, left to right
search_from(s, i) ==
    IF i > Len(s) THEN 0
    ELSE IF REGEX(s, i) THEN i
    ELSE search_from(s, i + 1)

RECURSIVE search_back(_, _)
search_back(s, i) ==
    IF i < 1 THEN 0
    ELSE IF REGEX(s, i) THEN i
    ELSE search_back(s, i - 1)

\* search returning the rightmost match
search_rightmost(s) == search_back(s, Len(s))

\* REGEX.search(s): the position of the leftmost match, 0 for None
search(s) == search_from(s, 1)

\* get_rule_violation with four characters after the match for five
get_rule_violation_tight(s) ==
    LET i == search(s)
        start == Max(0, (i - 1) - 5)
        end == (i + 1) + 4
    IN  IF i = 0 THEN <<>> ELSE SubSeq(s, start + 1, Min(end, Len(s)))

\* get_rule_violation(line): <<>> stands for None (a match is never empty)
get_rule_violation(s) ==
    LET i == search(s)
        start == Max(0, (i - 1) - 5)
        end == (i + 1) + 5
    IN  IF i = 0 THEN <<>> ELSE SubSeq(s, start + 1, Min(end, Len(s)))

(***************************************************************************)
(* error(message, lineno): the closure over the globals path and is_error. *)
(* A message is its text and, for the boundary rule, the snippet.          *)
(***************************************************************************)
ALREADY == "sentence-newline already disabled"
DURATION == "ignoring a rule for more than 20 lines"
BOUNDARY == "place new sentence on a new line"
USAGE == "Expected exactly one argument: the directory to check"

\* error without the assignment to is_error
error_flag_unset(out, message, violation, n) ==
    [stderr |-> Append(out.stderr,
                       [path |-> path, lineno |-> n, message |-> message,
                        violation |-> violation]),
     is_error |-> out.is_error]

error(out, message, violation, n) ==
    [stderr |-> Append(out.stderr,
                       [path |-> path, lineno |-> n, message |-> message,
                        violation |-> violation]),
     is_error |-> TRUE]

(***************************************************************************)
(* The documents.                                                          *)
(***************************************************************************)
HELLO_GOODBYE ==
    <<"H", "e", "l", "l", "o", " ", "w", "o", "r", "l", "d", ".", " ", "G",
      "o", "o", "d", "b", "y", "e", ".">>

HELLO == <<"H", "e", "l", "l", "o", " ", "w", "o", "r", "l", "d", ".">>

A_B == <<"a", ".", " ", "b">>

HI_SPACE == <<"H", "i", ".", " ">>

\* The lines a document of the main specification is made of.
DocLines ==
    { HELLO_GOODBYE, HELLO, HI_SPACE,
      FENCE, FENCE \o <<" ">> \o A_B, FENCE \o <<"a">> \o FENCE,
      START_MARKER, <<" ">> \o START_MARKER \o <<"\t">>,
      START_MARKER \o <<" ">> \o A_B,
      END_MARKER, <<"\t">> \o END_MARKER \o <<" ">>,
      A_B \o <<" ">> \o END_MARKER }

\* The lengths a document of the main specification has.
DocLengths == {0, 1, 2, MaxLines}

\* The lines of the specification of the boundary rule: every text of up to
\* MaxLen characters of Alphabet, a punctuation mark in every context, and
\* the lines the documentation names.
Alphabet == {"a", "1", ".", "?", " ", "\t"}

Short == UNION {[1..k -> Alphabet] : k \in 0..MaxLen}

Contexts ==
    { <<>>, <<"a">>, <<"c", "f">>,
      <<"e", ".", "g">>, <<"i", ".", "e">>, <<"e", "t", "c">>,
      <<"E", ".", "g">>, <<"I", ".", "E">>, <<"E", "t", "c">>,
      <<"e", ".", "G">>, <<"e", "t", "C">>, <<"e", "g">>, <<"a", "e", "t", "c">>,
      <<"a", ".">>, <<"a", "?">>, <<"a", "!">>, <<"?">>,
      <<"0">>, <<"5">>, <<"a", "9">>, <<"1", "a">> }

Tails ==
    { <<>>, <<" ">>, <<" ", "r">>, <<" ", " ", "r">>, <<" ", "\t", "r">>,
      <<"\t", "r">>, <<"r">>, <<" ", "r", ".", " ", "s">> }

InContext == {c \o <<p>> \o t : c \in Contexts, p \in Terminal, t \in Tails}

Named ==
    { HELLO_GOODBYE, HELLO, A_B, HI_SPACE,
      <<"e", ".", "g", ".", " ", "r", "e", "s", "t">>,
      <<"i", ".", "e", ".", " ", "r", "e", "s", "t">>,
      <<"e", "t", "c", ".", " ", "r", "e", "s", "t">>,
      <<"R", "e", "a", "l", "l", "y", "?", "!", " ", "n", "e", "x", "t">>,
      <<"W", "a", "i", "t", ".", ".", ".", " ", "n", "e", "x", "t">>,
      <<"1", ".", " ", "I", "t", "e", "m">>,
      <<"2", ".", " ", "I", "t", "e", "m">>,
      <<"e", "t", "c", ".", " ", "a", ".", " ", "b">>,
      <<"a", ".", " ", "b", ".", " ", "c">>,
      <<"E", ".", "g", ".", " ", "r", "e", "s", "t">>,
      <<"E", "t", "c", ".", " ", "r", "e", "s", "t">>,
      <<"c", "f", ".", " ", "r", "e", "s", "t">>,
      HELLO_GOODBYE \o <<" ", "x">>,
      FENCE \o <<" ">> \o A_B, START_MARKER, END_MARKER,
      <<" ">> \o END_MARKER \o <<"\t">> }

RuleLines == Short \cup InContext \cup Named

\* The lines before the last one in a document of that specification.
SetupLines == {FENCE, START_MARKER}

(***************************************************************************)
(* The body of the for loop of process_file, one line.                     *)
(***************************************************************************)
\* line 62
IgnoreLimit == 20

\* Scan with "marker in line" for "line.strip() == marker"
Scan_contains(s) ==
    [codeblock |-> Contains(s, FENCE),
     stripped |-> IF Contains(s, START_MARKER) THEN START_MARKER
                  ELSE IF Contains(s, END_MARKER) THEN END_MARKER
                  ELSE strip(s),
     violation |-> get_rule_violation(s)]

\* What the loop body asks of the text s of a line.
Scan(s) ==
    [codeblock |-> Contains(s, FENCE),
     stripped |-> strip(s),
     violation |-> get_rule_violation(s)]

\* Scan, computed once for every line of DocLines.
scanned == [s \in DocLines |-> Scan(s)]

\* toggle_codeblock that sets the flag and never clears it
toggle_codeblock_set(cb, text) == cb \/ text.codeblock

\* lines 50-51
toggle_codeblock(cb, text) == IF text.codeblock THEN ~cb ELSE cb

\* ignore_marker without the elif branch
ignore_marker_no_end(ig, text) ==
    IF text.stripped = START_MARKER THEN TRUE ELSE ig

\* lines 53-58: the flag after the marker checks
ignore_marker(ig, text) ==
    IF text.stripped = START_MARKER THEN TRUE
    ELSE IF text.stripped = END_MARKER THEN FALSE
    ELSE ig

\* already_disabled that lets a nested start marker pass
nesting_allowed(ig, text) == FALSE

\* lines 53-55
already_disabled(ig, text) == text.stripped = START_MARKER /\ ig

\* count_lines without the reset of the else branch
count_lines_no_reset(ig, n) == IF ig THEN n + 1 ELSE n

\* lines 60-65: the counter
count_lines(ig, n) == IF ig THEN n + 1 ELSE 0

\* too_long that holds on the first line past the limit only
too_long_once(n) == n = IgnoreLimit + 1

\* too_long with >= for >
too_long_from_limit(n) == n >= IgnoreLimit

\* line 62
too_long(n) == n > IgnoreLimit

\* suppressed with the code-block flag left out
suppressed_ignore_only(ig, cb) == ig

\* suppressed with the ignore flag left out
suppressed_codeblock_only(ig, cb) == cb

\* line 67
suppressed(ig, cb) == ig \/ cb

\* check_line that skips every line holding the fence
check_line_skip_fence(cb, ig, count, out, n, text) ==
    [is_codeblock |-> cb, is_ignoreblock |-> ig, ignoreblock_lines |-> count,
     checked |-> ~(suppressed(ig, cb) \/ text.codeblock),
     out |-> IF ~(suppressed(ig, cb) \/ text.codeblock)
                /\ text.violation # <<>>
             THEN error(out, BOUNDARY, replace_newline(text.violation), n)
             ELSE out]

\* lines 67-72, the flags and the counter being those of lines 50-65
check_line(cb, ig, count, out, n, text) ==
    [is_codeblock |-> cb, is_ignoreblock |-> ig, ignoreblock_lines |-> count,
     checked |-> ~suppressed(ig, cb),
     out |-> IF ~suppressed(ig, cb) /\ text.violation # <<>>
             THEN error(out, BOUNDARY, replace_newline(text.violation), n)
             ELSE out]

\* lines 60-72, the flags being those of lines 50-58
count_and_check(cb, ig, count, out, n, text) ==
    check_line(cb, ig, count,
               IF ig /\ too_long(count)
               THEN error(out, DURATION, <<>>, n) ELSE out,
               n, text)

\* loop_body with the gate before the marker checks: inside a code block
\* the ignore flag and the counter are left alone
loop_body_gate_first(loc, out, n, text) ==
    IF toggle_codeblock(loc.is_codeblock, text)
    THEN [is_codeblock |-> TRUE, is_ignoreblock |-> loc.is_ignoreblock,
          ignoreblock_lines |-> loc.ignoreblock_lines, checked |-> FALSE,
          out |-> out]
    ELSE count_and_check(
             FALSE,
             ignore_marker(loc.is_ignoreblock, text),
             count_lines(ignore_marker(loc.is_ignoreblock, text),
                         loc.ignoreblock_lines),
             IF already_disabled(loc.is_ignoreblock, text)
             THEN error(out, ALREADY, <<>>, n) ELSE out,
             n, text)

\* lines 50-72: the body of the loop on line number n with the scanned text
loop_body(loc, out, n, text) ==
    count_and_check(
        toggle_codeblock(loc.is_codeblock, text),
        ignore_marker(loc.is_ignoreblock, text),
        count_lines(ignore_marker(loc.is_ignoreblock, text),
                    loc.ignoreblock_lines),
        IF already_disabled(loc.is_ignoreblock, text)
        THEN error(out, ALREADY, <<>>, n) ELSE out,
        n, text)

(***************************************************************************)
(* The script.                                                             *)
(***************************************************************************)
Init ==
    /\ pc = "argv"
    /\ argc \in 1..3
    /\ ndocs \in 0..MaxDocs
    /\ path = 0
    /\ nlines = 0
    /\ lineno = 0
    /\ line = <<>>
    /\ is_codeblock = FALSE
    /\ is_ignoreblock = FALSE
    /\ ignoreblock_lines = 0
    /\ is_error = FALSE
    /\ stderr = <<>>
    /\ exit_status = -1
    /\ reported = FALSE
    /\ regionLen = 0
    /\ regionDur = 0
    /\ checked = FALSE
    /\ oddFences = FALSE
    /\ leftOpen = FALSE

\* lines 38-40
Usage ==
    /\ pc = "argv"
    /\ argc # 2
    /\ stderr' = <<[path |-> 0, lineno |-> 0, message |-> USAGE,
                    violation |-> <<>>]>>
    /\ exit_status' = 1
    /\ pc' = "exited"
    /\ UNCHANGED <<argc, ndocs, path, nlines, lineno, line, is_codeblock,
                   is_ignoreblock, ignoreblock_lines, is_error, reported,
                   regionLen, regionDur,
                   checked, oddFences, leftOpen>>

\* lines 38, 92
Begin ==
    /\ pc = "argv"
    /\ argc = 2
    /\ is_error' = FALSE
    /\ pc' = "for"
    /\ UNCHANGED <<argc, ndocs, path, nlines, lineno, line, is_codeblock,
                   is_ignoreblock, ignoreblock_lines, stderr, exit_status,
                   reported, regionLen, regionDur,
                   checked, oddFences, leftOpen>>

\* NextFile with the flags and the counter kept from one call to the next
NextFile_no_reset(lengths) ==
    /\ pc = "for"
    /\ path < ndocs
    /\ path' = path + 1
    /\ nlines' \in lengths
    /\ lineno' = 0
    /\ line' = <<>>
    /\ stderr' = <<>>
    /\ regionLen' = 0
    /\ regionDur' = 0
    /\ checked' = FALSE
    /\ oddFences' = FALSE
    /\ leftOpen' = (is_codeblock /\ is_ignoreblock /\ ignoreblock_lines > 20)
    /\ pc' = "file"
    /\ UNCHANGED <<argc, ndocs, is_error, exit_status, reported,
                   is_codeblock, is_ignoreblock, ignoreblock_lines>>

\* lines 94, 100, 43-47: the next path, its text read, process_file entered
NextFile(lengths) ==
    /\ pc = "for"
    /\ path < ndocs
    /\ path' = path + 1
    /\ nlines' \in lengths
    /\ is_codeblock' = FALSE
    /\ is_ignoreblock' = FALSE
    /\ ignoreblock_lines' = 0
    /\ lineno' = 0
    /\ line' = <<>>
    /\ stderr' = <<>>
    /\ regionLen' = 0
    /\ regionDur' = 0
    /\ checked' = FALSE
    /\ oddFences' = FALSE
    /\ leftOpen' = (is_codeblock /\ is_ignoreblock /\ ignoreblock_lines > 20)
    /\ pc' = "file"
    /\ UNCHANGED <<argc, ndocs, is_error, exit_status, reported>>

\* DocFinished with a break on the first violation
DocFinishedOrError == lineno = nlines \/ is_error

\* line 49: the for loop of process_file has no line left
DocFinished == lineno = nlines

\* The number of messages of out that say message.
Count(out, message) ==
    Cardinality({k \in 1..Len(out) : out[k].message = message})

\* The loop variables and the globals after an iteration on line s with the
\* result r of its body.
Assign(s, r) ==
    /\ lineno' = lineno + 1
    /\ line' = s
    /\ is_codeblock' = r.is_codeblock
    /\ is_ignoreblock' = r.is_ignoreblock
    /\ ignoreblock_lines' = r.ignoreblock_lines
    /\ is_error' = r.out.is_error
    /\ stderr' = r.out.stderr
    /\ reported' = (reported \/ r.out.stderr # <<>>)
    /\ regionLen' = IF r.is_ignoreblock \/ is_ignoreblock
                    THEN (IF is_ignoreblock THEN regionLen ELSE 0) + 1
                    ELSE 0
    /\ regionDur' = IF r.is_ignoreblock \/ is_ignoreblock
                    THEN (IF is_ignoreblock THEN regionDur ELSE 0)
                         + Count(r.out.stderr, DURATION)
                    ELSE 0
    /\ checked' = r.checked
    /\ oddFences' = (oddFences # Contains(s, FENCE))
    /\ UNCHANGED <<pc, argc, ndocs, path, nlines, exit_status, leftOpen>>

\* lines 49-72: one iteration, on the line s with the scanned text
Iteration(s, text) ==
    Assign(s, loop_body([is_codeblock |-> is_codeblock,
                         is_ignoreblock |-> is_ignoreblock,
                         ignoreblock_lines |-> ignoreblock_lines],
                        [stderr |-> <<>>, is_error |-> is_error],
                        lineno + 1, text))

ProcessLine ==
    /\ pc = "file"
    /\ ~DocFinished
    /\ \E s \in DocLines : Iteration(s, scanned[s])

\* process_file returns
EndFile ==
    /\ pc = "file"
    /\ DocFinished
    /\ pc' = "for"
    /\ UNCHANGED <<argc, ndocs, path, nlines, lineno, line, is_codeblock,
                   is_ignoreblock, ignoreblock_lines, is_error, stderr,
                   exit_status, reported, regionLen, regionDur,
                   checked, oddFences, leftOpen>>

\* lines 102-103
Exit ==
    /\ pc = "for"
    /\ path = ndocs
    /\ exit_status' = IF is_error THEN 1 ELSE 0
    /\ pc' = "exited"
    /\ UNCHANGED <<argc, ndocs, path, nlines, lineno, line, is_codeblock,
                   is_ignoreblock, ignoreblock_lines, is_error, stderr,
                   reported, regionLen, regionDur,
                   checked, oddFences, leftOpen>>

ReadFile == NextFile(DocLengths)

Next == Usage \/ Begin \/ ReadFile \/ ProcessLine \/ EndFile \/ Exit

Spec == Init /\ [][Next]_vars

(***************************************************************************)
(* The boundary rule on its own: one document whose last line is any line  *)
(* of RuleLines, after up to MaxSetup lines that open a code block or an   *)
(* ignore region.                                                          *)
(***************************************************************************)
InitRule ==
    /\ Init
    /\ argc = 2
    /\ ndocs = 1

ReadRule == NextFile(1..(MaxSetup + 1))

Setup ==
    /\ pc = "file"
    /\ lineno + 1 < nlines
    /\ \E s \in SetupLines : Iteration(s, Scan(s))

Probe ==
    /\ pc = "file"
    /\ lineno + 1 = nlines
    /\ \E s \in RuleLines : Iteration(s, Scan(s))

NextRule == Begin \/ ReadRule \/ Setup \/ Probe \/ EndFile \/ Exit

SpecRule == InitRule /\ [][NextRule]_vars

(***************************************************************************)
(* The properties.                                                         *)
(***************************************************************************)
\* The line last processed was read with both flags false after its updates.
Unsuppressed == lineno > 0 /\ ~is_codeblock /\ ~is_ignoreblock

\* The boundary violations reported for the line last processed.
Boundaries == Count(stderr, BOUNDARY)

\* The line last processed is an end marker that closed an ignore region.
RegionClosed == regionLen > 0 /\ ~is_ignoreblock

\* C1: the exit status of a scan is 1 if some violation was reported and 0
\* otherwise, and no step clears is_error once it is set.
C1_ExitStatus ==
    [][ /\ (is_error => is_error')
        /\ (pc' = "exited" /\ argc = 2
              => exit_status' = IF reported' THEN 1 ELSE 0) ]_vars

\* C1: two documents were scanned, a violation was reported before the last
\* line read, which reported none, and the scan has exited.
C1_Witness ==
    /\ pc = "exited"
    /\ path = 2
    /\ lineno > 0
    /\ reported
    /\ stderr = <<>>
    /\ exit_status = 1

\* C2: a line read while the code-block flag is true, and which is not itself
\* a fence line, reports no boundary violation, whatever the ignore flag is.
C2_FencedNotChecked ==
    (lineno > 0 /\ is_codeblock /\ ~Contains(line, FENCE)) => Boundaries = 0

\* C2: "Hello world. Goodbye." read inside a code block, outside any ignore
\* region.
C2_Witness ==
    /\ lineno > 1
    /\ is_codeblock
    /\ ~is_ignoreblock
    /\ line = HELLO_GOODBYE
    /\ stderr = <<>>

\* C3: no line of an ignore region, from the start marker through the end
\* marker that closes it, reports a boundary violation.
C3_IgnoredNotReported == regionLen > 0 => Boundaries = 0

\* C3: the end marker closes a region outside any code block, so that the
\* marker line itself is past the gate, and nothing is reported.
C3_Witness ==
    /\ RegionClosed
    /\ regionLen > 2
    /\ ~is_codeblock
    /\ strip(line) = END_MARKER
    /\ line # END_MARKER
    /\ stderr = <<>>

\* C4, as claimed: a region of N lines, end marker included, has reported
\* max(0, N - 20) duration violations when it closes.
C4_AsClaimed == RegionClosed => regionDur = Max(0, regionLen - 20)

\* C4, amended: a region of N lines, end marker included, has reported
\* max(0, N - 21) duration violations when it closes: one on each of its
\* lines 21 to N - 1, none on the end-marker line.
C4_Duration ==
    /\ RegionClosed => regionDur = Max(0, regionLen - 21)
    /\ regionLen > 0 =>
          Count(stderr, DURATION) =
              IF is_ignoreblock /\ regionLen >= 21 THEN 1 ELSE 0

\* C4: a region of 25 lines has closed with four duration violations.
C4_Witness == RegionClosed /\ regionLen = 25 /\ regionDur = 4

\* C5: a start marker read while the ignore flag is true reports one
\* "already disabled" violation at its line, leaves the flag true and the
\* loop running; one read while the flag is false reports none; and an end
\* marker always leaves the flag false and the counter 0.
C5_NestedStart ==
    [][ lineno' = lineno + 1 =>
          /\ (strip(line') = START_MARKER /\ is_ignoreblock =>
                /\ Count(stderr', ALREADY) = 1
                /\ \A k \in 1..Len(stderr') :
                      stderr'[k].message = ALREADY =>
                          stderr'[k].lineno = lineno'
                /\ is_ignoreblock'
                /\ ignoreblock_lines' = ignoreblock_lines + 1
                /\ pc' = "file")
          /\ (strip(line') = START_MARKER /\ ~is_ignoreblock =>
                Count(stderr', ALREADY) = 0 /\ is_ignoreblock')
          /\ (strip(line') = END_MARKER =>
                ~is_ignoreblock' /\ ignoreblock_lines' = 0) ]_vars

\* C5: a second start marker has been read inside an open region.
C5_Witness ==
    /\ strip(line) = START_MARKER
    /\ regionLen > 1
    /\ is_ignoreblock
    /\ Count(stderr, ALREADY) = 1

\* A punctuation mark at position i of s, followed by one space.
PairAt(s, i) ==
    i + 1 <= Len(s) /\ s[i] \in {".", "?", "!"} /\ s[i + 1] = " "

\* The space after position i of s is followed by a non-whitespace character.
TextAfter(s, i) == i + 2 <= Len(s) /\ s[i + 2] \notin {" ", "\t"}

\* Position i of s comes right after "e.g", "i.e" or "etc".
AfterAbbreviation(s, i) ==
    i > 3 /\ <<s[i - 3], s[i - 2], s[i - 1]>> \in
                 {<<"e", ".", "g">>, <<"i", ".", "e">>, <<"e", "t", "c">>}

\* Position i of s comes right after a punctuation mark or a decimal digit.
AfterMarkOrDigit(s, i) ==
    i > 1 /\ s[i - 1] \in {".", "?", "!", "0", "1", "2", "3", "4", "5", "6",
                           "7", "8", "9"}

\* The qualifying positions of s.
Qualifying(s) ==
    {i \in 1..Len(s) : /\ PairAt(s, i)
                       /\ TextAfter(s, i)
                       /\ ~AfterAbbreviation(s, i)
                       /\ ~AfterMarkOrDigit(s, i)}

\* The text of s from five characters before position i to five characters
\* after the space that follows it.
Around(s, i) == SubSeq(s, Max(1, i - 5), Min(Len(s), i + 6))

\* C6: an unsuppressed line with a qualifying position reports exactly one
\* boundary violation, at its line number and around its leftmost
\* qualifying position.
C6_LeftmostOnce ==
    (Unsuppressed /\ Qualifying(line) # {}) =>
        /\ Boundaries = 1
        /\ \A k \in 1..Len(stderr) :
               stderr[k].message = BOUNDARY =>
                   /\ stderr[k].lineno = lineno
                   /\ \E i \in Qualifying(line) :
                          /\ \A j \in Qualifying(line) : i <= j
                          /\ stderr[k].violation = Around(line, i)

\* C6: "etc. a. b", whose first punctuation mark follows an abbreviation,
\* has reported its later qualifying position.
C6_Witness ==
    /\ Unsuppressed
    /\ line = <<"e", "t", "c", ".", " ", "a", ".", " ", "b">>
    /\ Boundaries = 1
    /\ stderr[1].violation = <<"t", "c", ".", " ", "a", ".", " ", "b">>

\* C7, as claimed: a boundary violation is reported only for a line with a
\* punctuation mark, one space and then a non-whitespace character.
C7_AsClaimed ==
    Boundaries > 0 => \E i \in 1..Len(line) : PairAt(line, i) /\ TextAfter(line, i)

\* C8: a line whose every punctuation mark followed by a space comes right
\* after "e.g", "i.e" or "etc" reports no boundary violation, and "E.g.",
\* "I.E.", "Etc.", "e.G.", "etC." and "cf." followed by " r" report one.
C8_Abbreviations ==
    Unsuppressed =>
        /\ (\A i \in 1..Len(line) : PairAt(line, i) => AfterAbbreviation(line, i))
              => Boundaries = 0
        /\ \A c \in {<<"E", ".", "g">>, <<"I", ".", "E">>, <<"E", "t", "c">>,
                     <<"e", ".", "G">>, <<"e", "t", "C">>, <<"c", "f">>} :
              line = c \o <<".", " ", "r">> => Boundaries = 1

\* C8: "e.g. rest" was read unsuppressed and reported nothing.
C8_Witness ==
    /\ Unsuppressed
    /\ line = <<"e", ".", "g", ".", " ", "r", "e", "s", "t">>
    /\ stderr = <<>>

\* C9: a line whose every punctuation mark followed by a space comes right
\* after a punctuation mark or a decimal digit reports no boundary violation.
C9_MarkOrDigitBefore ==
    (Unsuppressed
     /\ \A i \in 1..Len(line) : PairAt(line, i) => AfterMarkOrDigit(line, i))
        => Boundaries = 0

\* C9: "Wait... next" was read unsuppressed and reported nothing.
C9_Witness ==
    /\ Unsuppressed
    /\ line = <<"W", "a", "i", "t", ".", ".", ".", " ", "n", "e", "x", "t">>
    /\ stderr = <<>>

\* C10: process_file returns only after the last line of its document, the
\* for loop moves on one path at a time, and the script exits only after
\* the last document, whatever has been reported.
C10_NoShortCircuit ==
    [][ /\ (pc = "file" /\ pc' # "file" => lineno = nlines)
        /\ (pc = "file" /\ pc' = "file" => lineno' = lineno + 1)
        /\ (path' # path => path' = path + 1 /\ lineno = nlines)
        /\ (pc' = "exited" /\ argc = 2 =>
               path = ndocs /\ lineno = nlines
               /\ exit_status' = IF is_error THEN 1 ELSE 0) ]_vars

\* C10: a violation was reported before the last line of the second
\* document, the longest there is, which was still read to its last line,
\* and the script exited with status 1.
C10_Witness ==
    /\ pc = "exited"
    /\ exit_status = 1
    /\ path = 2
    /\ nlines = MaxLines
    /\ lineno = nlines
    /\ stderr = <<>>

\* C11, as claimed: a line whose trimmed text is the end marker is never
\* passed to the boundary detector.
C11_AsClaimed == (lineno > 0 /\ strip(line) = END_MARKER) => ~checked

\* C11, amended: the gate of an end-marker line is evaluated with the ignore
\* flag that line has just cleared, so the line is passed to the boundary
\* detector unless the code-block flag is true; the detector finds nothing
\* in it.
C11_EndMarkerLine ==
    (lineno > 0 /\ strip(line) = END_MARKER) =>
        /\ ~is_ignoreblock
        /\ checked <=> ~is_codeblock
        /\ Boundaries = 0

\* C11: an end marker has closed a region outside any code block and its
\* line was passed to the detector.
C11_Witness ==
    /\ strip(line) = END_MARKER
    /\ RegionClosed
    /\ regionLen > 1
    /\ ~is_codeblock
    /\ checked
    /\ stderr = <<>>

\* C12: after every line the counter is 0 exactly when the ignore flag is
\* false, and with the flag true it is the number of consecutive lines, up
\* to this one, after which the flag was true; it is never negative.
C12_Counter ==
    /\ ignoreblock_lines >= 0
    /\ (ignoreblock_lines = 0) <=> ~is_ignoreblock
    /\ is_ignoreblock => ignoreblock_lines = regionLen

\* C12: the counter after the seventh line of an open region.
C12_Witness ==
    /\ is_ignoreblock
    /\ regionLen = 7
    /\ ignoreblock_lines = 7
    /\ lineno > 7

\* C13: a duration violation is reported at a line exactly when the ignore
\* flag is true after it and the counter exceeds 20, on every such line; a
\* start marker inside an open region leaves the count running, and its
\* line reports the structural violation and, from the region's 21st line
\* on, the duration violation as well.
C13_DurationEveryLine ==
    lineno > 0 =>
        /\ Count(stderr, DURATION) =
               IF is_ignoreblock /\ ignoreblock_lines > 20 THEN 1 ELSE 0
        /\ (is_ignoreblock /\ regionLen >= 21) => Count(stderr, DURATION) = 1
        /\ (is_ignoreblock /\ regionLen > 1 /\ strip(line) = START_MARKER) =>
               /\ Count(stderr, ALREADY) = 1
               /\ ignoreblock_lines = regionLen

\* C13: a nested start marker on the 23rd line of a region carries both
\* violations.
C13_Witness ==
    /\ strip(line) = START_MARKER
    /\ regionLen = 23
    /\ Count(stderr, ALREADY) = 1
    /\ Count(stderr, DURATION) = 1
    /\ Len(stderr) = 2

\* C14: the code-block flag is true exactly when an odd number of the lines
\* read so far hold the fence marker, a line holding it twice counting once.
C14_FenceParity == is_codeblock <=> oddFences

\* C14: the third fence line of a document holds the marker twice and
\* leaves the flag true.
C14_Witness ==
    /\ lineno = 3
    /\ line = FENCE \o <<"a">> \o FENCE
    /\ oddFences
    /\ is_codeblock

\* C15: whatever the flags are, a line toggles the code-block flag if it
\* holds the fence, sets or clears the ignore flag if it is a marker,
\* reports the structural and the duration violation as outside a code
\* block, and is passed to the boundary detector exactly when both flags
\* are false after it.
C15_OnlyBoundarySuppressed ==
    [][ lineno' = lineno + 1 =>
          /\ is_codeblock' = (is_codeblock # Contains(line', FENCE))
          /\ is_ignoreblock' =
                 IF strip(line') = START_MARKER THEN TRUE
                 ELSE IF strip(line') = END_MARKER THEN FALSE
                 ELSE is_ignoreblock
          /\ Count(stderr', ALREADY) =
                 IF strip(line') = START_MARKER /\ is_ignoreblock
                 THEN 1 ELSE 0
          /\ Count(stderr', DURATION) =
                 IF is_ignoreblock' /\ ignoreblock_lines >= 20
                 THEN 1 ELSE 0
          /\ checked' <=> (~is_codeblock' /\ ~is_ignoreblock')
          /\ Boundaries' > 0 => checked' ]_vars

\* C15: inside a code block, a nested start marker has reported the
\* structural and the duration violation.
C15_Witness ==
    /\ is_codeblock
    /\ ~Contains(line, FENCE)
    /\ strip(line) = START_MARKER
    /\ Count(stderr, ALREADY) = 1
    /\ Count(stderr, DURATION) = 1

\* C16: a document starts with both flags false and the counter 0, and its
\* first line reports no structural and no duration violation and is passed
\* to the boundary detector unless it opens a code block or an ignore
\* region, whatever the document before left behind.
C16_FreshState ==
    /\ (pc = "file" /\ lineno = 0) =>
           ~is_codeblock /\ ~is_ignoreblock /\ ignoreblock_lines = 0
    /\ lineno = 1 =>
           /\ Count(stderr, ALREADY) = 0
           /\ Count(stderr, DURATION) = 0
           /\ checked <=> (~Contains(line, FENCE) /\ strip(line) # START_MARKER)
           /\ (checked /\ Qualifying(line) # {}) => Boundaries = 1

\* C16: the document before ended in a code block and in an ignore region
\* of more than 20 lines, and the first line of this one, "Hello world.
\* Goodbye.", is reported.
C16_Witness ==
    /\ leftOpen
    /\ path = 2
    /\ lineno = 1
    /\ line = HELLO_GOODBYE
    /\ Len(stderr) = 1
    /\ Boundaries = 1

\* C17: the ignore flag changes only on a line whose trimmed text is a
\* marker, the code-block flag only on a line holding the fence, and an end
\* marker read with the ignore flag false reports nothing and leaves the
\* flag false and the counter 0.
C17_ExactMarkers ==
    [][ lineno' = lineno + 1 =>
          /\ is_ignoreblock' # is_ignoreblock =>
                 strip(line') \in {START_MARKER, END_MARKER}
          /\ ~Contains(line', FENCE) => is_codeblock' = is_codeblock
          /\ (strip(line') = END_MARKER /\ ~is_ignoreblock) =>
                 /\ stderr' = <<>>
                 /\ ~is_ignoreblock'
                 /\ ignoreblock_lines' = 0 ]_vars

\* C17: a start marker followed by " a. b" on the same line was read
\* outside any region and any code block: the flag stayed false and the
\* line was reported.
C17_Witness ==
    /\ line = START_MARKER \o <<" ">> \o A_B
    /\ Contains(line, START_MARKER)
    /\ ~is_ignoreblock
    /\ ~is_codeblock
    /\ regionLen = 0
    /\ Boundaries = 1

\* The positions of s where REGEX matches.
Matches(s) ==
    {i \in 1..Len(s) : /\ PairAt(s, i)
                       /\ ~(i + 2 <= Len(s) /\ s[i + 2] \in {" ", "\t"})
                       /\ ~AfterAbbreviation(s, i)
                       /\ ~AfterMarkOrDigit(s, i)}

\* s[a:b], for 0 <= a
Slice(s, a, b) == SubSeq(s, a + 1, Min(b, Len(s)))

WORLD_GOODB ==
    <<"w", "o", "r", "l", "d", ".", " ", "G", "o", "o", "d", "b">>

\* C18: the snippet of a boundary violation whose punctuation mark is at
\* index m of the line (from 0) is the line from index max(0, m - 5) up to
\* but not including min(len(line), m + 7), and the violation carries the
\* number of the line; the one-line document "Hello world. Goodbye."
\* reports one violation, at line 1, with the snippet "world. Goodb".
C18_Snippet ==
    /\ \A k \in 1..Len(stderr) :
           stderr[k].message = BOUNDARY =>
               /\ stderr[k].lineno = lineno
               /\ stderr[k].path = path
               /\ \E i \in Matches(line) :
                      /\ \A j \in Matches(line) : i <= j
                      /\ stderr[k].violation =
                             Slice(line, Max(0, (i - 1) - 5), (i - 1) + 7)
    /\ (nlines = 1 /\ lineno = 1 /\ line = HELLO_GOODBYE) =>
           stderr = <<[path |-> path, lineno |-> 1, message |-> BOUNDARY,
                       violation |-> WORLD_GOODB]>>

\* C18: the one-line document "Hello world. Goodbye." has been read.
C18_Witness ==
    /\ nlines = 1
    /\ lineno = 1
    /\ line = HELLO_GOODBYE
    /\ Boundaries = 1
    /\ stderr[1].violation = WORLD_GOODB

\* C19: a fence line that opens a code block is not passed to the boundary
\* detector; one that closes a block is, unless the ignore flag is true,
\* and its leftmost qualifying position is then reported.
C19_FenceLines ==
    (lineno > 0 /\ Contains(line, FENCE)) =>
        IF is_codeblock
        THEN ~checked /\ Boundaries = 0
        ELSE ~is_ignoreblock =>
                 /\ checked
                 /\ Qualifying(line) # {} => Boundaries = 1

\* C19: the fence line "``` a. b" has closed a code block outside any
\* ignore region and was reported.
C19_Witness ==
    /\ lineno > 1
    /\ line = FENCE \o <<" ">> \o A_B
    /\ ~is_codeblock
    /\ ~is_ignoreblock
    /\ Boundaries = 1
    /\ stderr[1].violation = line

====
